---- MODULE Spec2Model ----
(***************************************************************************)
(* Model of the nagios-plugins-python repository: nine single-shot Nagios  *)
(* plugins.  One run of a plugin is one behaviour: Init fixes the command  *)
(* line (args) and what the monitored host will answer (env); a collection *)
(* step performs the network I/O; an evaluation step compares the reading  *)
(* with the thresholds, prints at most one line and terminates the process *)
(* with an exit code.  args.numeric is FALSE when a numeric option carries *)
(* text that is no number; each script converts it where its source does.  *)
(* check_ssh and check_tcp_port take their try / else / finally clauses as *)
(* separate steps, so that the life of the socket is visible in sock.      *)
(*                                                                         *)
(* Numbers: Python floats are modelled by integers in a fixed-point unit   *)
(* chosen per plugin (stated where used); all thresholds drawn are whole   *)
(* numbers, which the float()/int() parsers accept.                        *)
(***************************************************************************)
EXTENDS Integers, Sequences, FiniteSets, TLC

VARIABLES
    plugin,     \* which script is running
    args,       \* parsed command line (argparse namespace / ARGS)
    env,        \* what the outside world answers during collection
    pc,         \* position in the script: "start", "else", "finally",
                \* "collected", "done"
    net,        \* TRUE once the collection step (network I/O) has begun
    data,       \* what the collection step returned to main()
    sock,       \* socket / Telnet object: "none", "open", "closed"
    stdout,     \* lines printed so far, each [kw, msg, val]
    exitcode,   \* process exit status, NoExit while running
    exc         \* unhandled exception that ended the process, or "none"

vars == <<plugin, args, env, pc, net, data, sock, stdout, exitcode, exc>>

----------------------------------------------------------------------------
(* Process termination                                                     *)

\* exitcode while the process is still running
NoExit == 0 - 1

NoData == [kind |-> "none"]

\* print('<KW>: <msg> <val>')
Line(kw, msg, val) == [kw |-> kw, msg |-> msg, val |-> val]

\* print(line); sys.exit(code)
PrintExit(line, code) == [lines |-> <<line>>, code |-> code, exc |-> "none"]

\* main() returns without print or sys.exit: the interpreter exits with 0
FallOff == [lines |-> <<>>, code |-> 0, exc |-> "none"]

\* an exception nobody catches: traceback on stderr, exit status 1
Uncaught(e) == [lines |-> <<>>, code |-> 1, exc |-> e]

\* argparse rejects an option value (type=int / type=float): usage and the
\* error on stderr, exit status 2
UsageError == [lines |-> <<>>, code |-> 2, exc |-> "argparse.error"]

\* the process ends: what it printed, its exit status, what killed it
Terminate(r) ==
    /\ pc' = "done"
    /\ stdout' = stdout \o r.lines
    /\ exitcode' = r.code
    /\ exc' = r.exc

----------------------------------------------------------------------------
(* SNMP GET, shared by check_users, check_uptime, check_time, check_load   *)

\* What cmd_gen.getCmd can answer: values, a transport error indication
\* (err_found truthy), or a non-zero SNMP error-status with err_found None.
SnmpOutcomes == {"ok", "errorIndication", "errorStatus"}

do_snmpget(outcome) ==
    IF outcome = "errorIndication"
    THEN PrintExit(Line("UNKNOWN", "snmp error", 0), 3)
    ELSE FallOff

\* The var_binds handed back: the host's values when the GET succeeded; with
\* a non-zero error-status pysnmp hands back binds whose values may or may
\* not convert (int()/float() raises ValueError on the latter).
VarBinds(outcome) ==
    IF outcome = "ok" THEN {"values"} ELSE {"values", "junk"}

----------------------------------------------------------------------------
(* check_users.py                                                          *)

MaxUsers == 4
MaxUserThreshold == 3

users_main_alt(users, warn, critical) ==
    IF users > critical
    THEN PrintExit(Line("CRITICAL", "logged in users", users), 2)
    ELSE IF users > warn
    THEN PrintExit(Line("WARNING", "logged in users", users), 1)
    ELSE IF users <= warn
    THEN PrintExit(Line("OK", "logged in users", users), 0)
    ELSE FallOff

\* main(), lines 117-127
users_main(users, warn, critical) ==
    IF users >= critical
    THEN PrintExit(Line("CRITICAL", "logged in users", users), 2)
    ELSE IF users >= warn
    THEN PrintExit(Line("WARNING", "logged in users", users), 1)
    ELSE IF users < warn
    THEN PrintExit(Line("OK", "logged in users", users), 0)
    ELSE FallOff

UsersInit ==
    /\ plugin = "check_users"
    /\ args \in [warn : 0..MaxUserThreshold, critical : 0..MaxUserThreshold,
                 numeric : {TRUE}]
                \cup {[warn |-> 0, critical |-> 0, numeric |-> FALSE]}
    /\ env \in [snmp : SnmpOutcomes, users : 0..MaxUsers]

\* do_argparser() (type=int), then UserData.__init__: the SNMP GET
UsersCollect ==
    /\ plugin = "check_users" /\ pc = "start"
    /\ IF ~args.numeric
       THEN Terminate(UsageError) /\ UNCHANGED <<net, data>>
       ELSE /\ net' = TRUE
            /\ LET r == do_snmpget(env.snmp) IN
               IF r.lines # <<>>
               THEN Terminate(r) /\ UNCHANGED data
               ELSE /\ \E b \in VarBinds(env.snmp) :
                        data' = [kind |-> b, users |-> env.users]
                    /\ pc' = "collected"
                    /\ UNCHANGED <<stdout, exitcode, exc>>
    /\ UNCHANGED <<plugin, args, env, sock>>

\* user_count() and the comparisons of main()
UsersEvaluate ==
    /\ plugin = "check_users" /\ pc = "collected"
    /\ IF data.kind = "junk"
       THEN Terminate(Uncaught("ValueError"))
       ELSE Terminate(users_main(data.users, args.warn, args.critical))
    /\ UNCHANGED <<plugin, args, env, net, data, sock>>

----------------------------------------------------------------------------
(* check_time.py.  Drift is held in thousandths of a minute, the precision *)
(* round(..., 3) keeps; env.delta is now - host_now in whole seconds.      *)

MaxDriftMinutes == 3
MaxDriftDays == 1
MaxTimeThreshold == 3
SecondsPerDay == 86400
MilliPerMinute == 1000

Abs(x) == IF x < 0 THEN -x ELSE x

\* main() line 136: round(abs(now - host_now).seconds / 60.0, 3).
\* timedelta.seconds is the seconds field (0..86399) beside .days;
\* s/60 rounded to 3 places is floor((100*s + 3) / 6) thousandths.
drift(delta) == (100 * (Abs(delta) % SecondsPerDay) + 3) \div 6

\* main(), lines 138-148
time_main(diff, warn, critical) ==
    IF diff >= critical * MilliPerMinute
    THEN PrintExit(Line("CRITICAL", "drift is", diff), 2)
    ELSE IF diff >= warn * MilliPerMinute
    THEN PrintExit(Line("WARNING", "drift is", diff), 1)
    ELSE IF diff < warn * MilliPerMinute
    THEN PrintExit(Line("OK", "drift is", diff), 0)
    ELSE FallOff

DriftSeconds ==
    { 60 * k + e : k \in 0..MaxDriftMinutes, e \in {0, 59} }

TimeDeltas ==
    { sgn * (d * SecondsPerDay + s) :
        sgn \in {-1, 1}, d \in 0..MaxDriftDays, s \in DriftSeconds }

TimeInit ==
    /\ plugin = "check_time"
    /\ args \in [warn : 0..MaxTimeThreshold, critical : 0..MaxTimeThreshold,
                 numeric : {TRUE}]
                \cup {[warn |-> 0, critical |-> 0, numeric |-> FALSE]}
    /\ env \in [snmp : SnmpOutcomes, delta : TimeDeltas]

\* do_argparser() (type=float), then TimeData.__init__: the SNMP GET
\* (prettyPrint().split(',') of the bind)
TimeCollect ==
    /\ plugin = "check_time" /\ pc = "start"
    /\ IF ~args.numeric
       THEN Terminate(UsageError) /\ UNCHANGED <<net, data>>
       ELSE /\ net' = TRUE
            /\ LET r == do_snmpget(env.snmp) IN
               IF r.lines # <<>>
               THEN Terminate(r) /\ UNCHANGED data
               ELSE /\ \E b \in VarBinds(env.snmp) :
                        data' = [kind |-> b, delta |-> env.delta]
                    /\ pc' = "collected"
                    /\ UNCHANGED <<stdout, exitcode, exc>>
    /\ UNCHANGED <<plugin, args, env, sock>>

\* host_time_utc(), utcnow() and the comparisons of main()
TimeEvaluate ==
    /\ plugin = "check_time" /\ pc = "collected"
    /\ IF data.kind = "junk"
       THEN Terminate(Uncaught("ValueError"))
       ELSE Terminate(time_main(drift(data.delta), args.warn, args.critical))
    /\ UNCHANGED <<plugin, args, env, net, data, sock>>

----------------------------------------------------------------------------
(* check_uptime.py.  Uptime is held in hundredths of a second (timeticks). *)
(* env.py is the interpreter major version: ticks / 100 floors under       *)
(* Python 2 and is exact under Python 3; ordering a number against None    *)
(* is allowed under Python 2 (None sorts below every number) and raises    *)
(* TypeError under Python 3.                                               *)

MaxUptimeThreshold == 3
TicksPerSecond == 100

TimeTypes == {"sec", "min", "hr", "day"}

\* a number, or Python's None
Num(n) == [none |-> FALSE, v |-> n]
None == [none |-> TRUE, v |-> 0]

\* to_seconds(), lines 94-109: no else branch, so None for any other type
to_seconds(val, timetype) ==
    IF timetype = "sec" THEN Num(val)
    ELSE IF timetype = "min" THEN Num(val * 60)
    ELSE IF timetype = "hr" THEN Num(val * 3600)
    ELSE IF timetype = "day" THEN Num(val * 86400)
    ELSE None

\* UptimeData.uptime(), lines 86-91, in hundredths of a second
uptime(ticks, py) ==
    IF py = 2 THEN (ticks \div 100) * TicksPerSecond ELSE ticks

\* Python 2 ordering of a number x against y (a number or None)
LE(x, y) == IF y.none THEN FALSE ELSE x <= y.v * TicksPerSecond
GE(x, y) == IF y.none THEN TRUE ELSE x >= y.v * TicksPerSecond
LT(x, y) == IF y.none THEN FALSE ELSE x < y.v * TicksPerSecond
GT(x, y) == IF y.none THEN TRUE ELSE x > y.v * TicksPerSecond

uptime_lt_alt(up, user_warn, user_critical) ==
    IF LT(up, user_critical)
    THEN PrintExit(Line("CRITICAL", "server uptime is", up), 2)
    ELSE IF LT(up, user_warn)
    THEN PrintExit(Line("WARNING", "server uptime is", up), 1)
    ELSE PrintExit(Line("OK", "server uptime is", up), 0)

\* main(), lines 150-159: the 'lt' block
uptime_lt(up, user_warn, user_critical) ==
    IF LE(up, user_critical)
    THEN PrintExit(Line("CRITICAL", "server uptime is", up), 2)
    ELSE IF LE(up, user_warn)
    THEN PrintExit(Line("WARNING", "server uptime is", up), 1)
    ELSE IF GT(up, user_warn)
    THEN PrintExit(Line("OK", "server uptime is", up), 0)
    ELSE FallOff

\* main(), lines 161-170: the 'gt' block
uptime_gt(up, user_warn, user_critical) ==
    IF GE(up, user_critical)
    THEN PrintExit(Line("CRITICAL", "server uptime is", up), 2)
    ELSE IF GE(up, user_warn)
    THEN PrintExit(Line("WARNING", "server uptime is", up), 1)
    ELSE IF LT(up, user_warn)
    THEN PrintExit(Line("OK", "server uptime is", up), 0)
    ELSE FallOff

\* main(), lines 145-170
uptime_main(up, warn, critical, operator, timetype, py) ==
    LET user_warn == to_seconds(warn, timetype)
        user_critical == to_seconds(critical, timetype)
    IN  IF operator \in {"lt", "gt"} /\ py = 3
           /\ (user_warn.none \/ user_critical.none)
        THEN Uncaught("TypeError")
        ELSE IF operator = "lt" THEN uptime_lt(up, user_warn, user_critical)
        ELSE IF operator = "gt" THEN uptime_gt(up, user_warn, user_critical)
        ELSE FallOff

Factor(timetype) ==
    LET s == to_seconds(1, timetype) IN IF s.none THEN 1 ELSE s.v

\* tick counts around every multiple of the time type that a threshold names
UptimeTicks(timetype) ==
    { t \in { TicksPerSecond * Factor(timetype) * k + e :
                k \in 0..(MaxUptimeThreshold + 1), e \in {-100, 0, 50, 100} } :
        t >= 0 }

UptimeInit ==
    /\ plugin = "check_uptime"
    /\ args \in [warn : 0..MaxUptimeThreshold,
                 critical : 0..MaxUptimeThreshold,
                 operator : {"lt", "gt", "eq"},
                 timetype : TimeTypes \cup {"week"},
                 numeric : {TRUE}]
                \cup {[warn |-> 0, critical |-> 0, operator |-> "lt",
                        timetype |-> "day", numeric |-> FALSE]}
    /\ \E o \in SnmpOutcomes, p \in {2, 3}, t \in UptimeTicks(args.timetype) :
          env = [snmp |-> o, py |-> p, ticks |-> t]

\* do_argparser() (type=float; operator and time type are free text), then
\* UptimeData.__init__: the SNMP GET
UptimeCollect ==
    /\ plugin = "check_uptime" /\ pc = "start"
    /\ IF ~args.numeric
       THEN Terminate(UsageError) /\ UNCHANGED <<net, data>>
       ELSE /\ net' = TRUE
            /\ LET r == do_snmpget(env.snmp) IN
               IF r.lines # <<>>
               THEN Terminate(r) /\ UNCHANGED data
               ELSE /\ \E b \in VarBinds(env.snmp) :
                        data' = [kind |-> b, ticks |-> env.ticks]
                    /\ pc' = "collected"
                    /\ UNCHANGED <<stdout, exitcode, exc>>
    /\ UNCHANGED <<plugin, args, env, sock>>

\* uptime(), to_seconds() and the comparisons of main()
UptimeEvaluate ==
    /\ plugin = "check_uptime" /\ pc = "collected"
    /\ IF data.kind = "junk"
       THEN Terminate(Uncaught("ValueError"))
       ELSE Terminate(uptime_main(uptime(data.ticks, env.py), args.warn,
                                  args.critical, args.operator,
                                  args.timetype, env.py))
    /\ UNCHANGED <<plugin, args, env, net, data, sock>>

----------------------------------------------------------------------------
(* check_load.py.  Load figures and thresholds are whole numbers standing  *)
(* for the floats float() yields; thresholds are the comma-separated lists *)
(* after split(',') and float().                                           *)

MaxLoad == 2
MaxLoadThreshold == 2
NumLoadFigures == 3

Min(a, b) == IF a < b THEN a ELSE b

\* [l for l, t in zip(load, thresholds) if l >= t]: zip stops at the shorter
Breaches(load, thresholds) ==
    { i \in 1..Min(Len(load), Len(thresholds)) : load[i] >= thresholds[i] }

load_main_alt(load, warn, critical) ==
    IF 1 \in Breaches(load, critical)
    THEN PrintExit(Line("CRITICAL", "load is", load), 2)
    ELSE IF 1 \in Breaches(load, warn)
    THEN PrintExit(Line("WARNING", "load is", load), 1)
    ELSE PrintExit(Line("OK", "load is", load), 0)

\* main(), lines 123-137
load_main(load, warn, critical) ==
    LET check_warn == Breaches(load, warn)
        check_critical == Breaches(load, critical)
    IN  IF check_critical # {}
        THEN PrintExit(Line("CRITICAL", "load is", load), 2)
        ELSE IF check_warn # {}
        THEN PrintExit(Line("WARNING", "load is", load), 1)
        ELSE IF check_warn = {} /\ check_critical = {}
        THEN PrintExit(Line("OK", "load is", load), 0)
        ELSE FallOff

\* threshold lists: every list with one value per figure, and one list each
\* that is too short and too long
LoadLists ==
    [1..NumLoadFigures -> 1..MaxLoadThreshold]
        \cup { [i \in 1..n |-> 1] :
                 n \in {NumLoadFigures - 1, NumLoadFigures + 1} }

LoadInit ==
    /\ plugin = "check_load"
    /\ args \in [warn : LoadLists, critical : LoadLists, numeric : {TRUE}]
                \cup {[warn |-> <<>>, critical |-> <<>>, numeric |-> FALSE]}
    /\ env \in [snmp : SnmpOutcomes,
                load : [1..NumLoadFigures -> 0..MaxLoad]]

\* main() lines 114-115: float() of every list element raises ValueError on
\* text that is no number; then LoadData.__init__: the SNMP GET of the
\* three load OIDs
LoadCollect ==
    /\ plugin = "check_load" /\ pc = "start"
    /\ IF ~args.numeric
       THEN Terminate(Uncaught("ValueError")) /\ UNCHANGED <<net, data>>
       ELSE /\ net' = TRUE
            /\ LET r == do_snmpget(env.snmp) IN
               IF r.lines # <<>>
               THEN Terminate(r) /\ UNCHANGED data
               ELSE /\ \E b \in VarBinds(env.snmp) :
                        data' = [kind |-> b, load |-> env.load]
                    /\ pc' = "collected"
                    /\ UNCHANGED <<stdout, exitcode, exc>>
    /\ UNCHANGED <<plugin, args, env, sock>>

\* one_minute() .. fifteen_minute(), float() and the comparisons of main()
LoadEvaluate ==
    /\ plugin = "check_load" /\ pc = "collected"
    /\ IF data.kind = "junk"
       THEN Terminate(Uncaught("ValueError"))
       ELSE Terminate(load_main(data.load, args.warn, args.critical))
    /\ UNCHANGED <<plugin, args, env, net, data, sock>>

----------------------------------------------------------------------------
(* check_ping.py.  env.loss is the percentage in ping's summary line,      *)
(* env.rtt the average of its rtt line in milliseconds; env.report tells   *)
(* which of the two lines ping printed.                                    *)

MaxLossStep == 5
MaxLossThresholdStep == 4
MaxRttStep == 5
MaxRttThresholdStep == 2

PingReports == {"full", "noRtt", "empty"}

LossValues == { 5 * k : k \in 0..MaxLossStep } \cup {100}
RttValues == { 50 * k : k \in 1..MaxRttStep }
LossThresholds == { 5 * k : k \in 0..MaxLossThresholdStep }
RttThresholds == { 100 * k : k \in 1..MaxRttThresholdStep }

\* get_packetloss(), lines 57-60: re.search(r'(\d)%') takes the one digit
\* that stands before the % sign
get_packetloss(percent) == percent % 10

\* get_rtt(), lines 69-72: the text between the first '/' that a digit
\* follows and the next '/', which is the avg field
get_rtt(avg) == avg

\* main(), lines 114-129
ping_main(pktloss, rtt, warn, critical) ==
    IF Len(warn) < 2 \/ Len(critical) < 2
    THEN Uncaught("IndexError")
    ELSE LET warn_pl == warn[1]
             critical_pl == critical[1]
             warn_rtt == warn[2]
             critical_rtt == critical[2]
         IN  IF pktloss >= critical_pl \/ rtt >= critical_rtt
             THEN PrintExit(Line("CRITICAL", "packet loss, rtt avg",
                                 <<pktloss, rtt>>), 2)
             ELSE IF pktloss >= warn_pl \/ rtt >= warn_rtt
             THEN PrintExit(Line("WARNING", "packet loss, rtt avg",
                                 <<pktloss, rtt>>), 1)
             ELSE IF pktloss < warn_pl /\ rtt < warn_rtt
             THEN PrintExit(Line("OK", "packet loss, rtt avg",
                                 <<pktloss, rtt>>), 0)
             ELSE FallOff

\* threshold lists "<loss>,<rtt>", and one list each too short and too long
PingLists ==
    { <<l, r>> : l \in LossThresholds, r \in RttThresholds }
        \cup { <<5>>, <<5, 100, 100>> }

PingInit ==
    /\ plugin = "check_ping"
    /\ args \in [warn : PingLists, critical : PingLists, numeric : {TRUE}]
                \cup {[warn |-> <<>>, critical |-> <<>>, numeric |-> FALSE]}
    /\ env \in [report : PingReports, loss : LossValues, rtt : RttValues]

\* do_ping(), lines 43-48: run ping and split its report into lines
PingCollect ==
    /\ plugin = "check_ping" /\ pc = "start"
    /\ net' = TRUE
    /\ data' = [kind |-> env.report, loss |-> env.loss, rtt |-> env.rtt]
    /\ pc' = "collected"
    /\ UNCHANGED <<plugin, args, env, sock, stdout, exitcode, exc>>

\* main(), lines 111-129: packetloss[0] / rtt[0] raise IndexError when the
\* line is missing; float() of the threshold text comes after both
PingEvaluate ==
    /\ plugin = "check_ping" /\ pc = "collected"
    /\ IF data.kind # "full"
       THEN Terminate(Uncaught("IndexError"))
       ELSE IF ~args.numeric
       THEN Terminate(Uncaught("ValueError"))
       ELSE Terminate(ping_main(get_packetloss(data.loss), get_rtt(data.rtt),
                                args.warn, args.critical))
    /\ UNCHANGED <<plugin, args, env, net, data, sock>>

----------------------------------------------------------------------------
(* Text.  A string is a sequence of one-character strings.                 *)

\* Python's  needle in haystack
Contains(haystack, needle) ==
    \E i \in 1..(Len(haystack) + 1) :
        /\ i + Len(needle) - 1 <= Len(haystack)
        /\ SubSeq(haystack, i, i + Len(needle) - 1) = needle

Digits == <<"0", "1", "2", "3", "4", "5", "6", "7", "8", "9">>

IsDigit(ch) == \E i \in 1..Len(Digits) : Digits[i] = ch

\* str(n) of a non-negative int
RECURSIVE Str(_)
Str(n) ==
    IF n < 10 THEN <<Digits[n + 1]>>
    ELSE Append(Str(n \div 10), Digits[(n % 10) + 1])

\* all strings over alphabet of length at most n
RECURSIVE StringsUpTo(_, _)
StringsUpTo(alphabet, n) ==
    IF n = 0 THEN {<<>>}
    ELSE LET shorter == StringsUpTo(alphabet, n - 1)
         IN  shorter \cup { Append(t, ch) : t \in shorter, ch \in alphabet }

----------------------------------------------------------------------------
(* Connection attempts (check_tcp_port, check_ssh, check_ssl)              *)

ConnOutcomes == {"connected", "timeout", "refused", "unreachable", "resolution"}

\* the exception connect()/open() raises for each failure
ConnException(outcome) ==
    CASE outcome = "timeout" -> "socket.timeout"
      [] outcome = "refused" -> "socket.error"
      [] outcome = "unreachable" -> "socket.error"
      [] outcome = "resolution" -> "socket.gaierror"
      [] OTHER -> "none"

----------------------------------------------------------------------------
(* check_ssl.py.  env.hours is the time from now to notAfter in hours;     *)
(* thresholds and day counts are drawn in steps of five days.              *)

MaxSslThresholdStep == 3
MaxSslDayStep == 4
HoursPerDay == 24

\* main() line 112: (not_after - today).days, the floor of the difference
days_left(hours) == hours \div HoursPerDay

\* the keyword the warning branch prints (line 131)
ssl_warn_keyword == "warnING"

ssl_main_alt(difference, warn, critical, expect_issuer, commonName) ==
    IF ~expect_issuer.none /\ expect_issuer.v # <<>> /\ commonName.none
    THEN Uncaught("KeyError")
    ELSE IF ~expect_issuer.none /\ expect_issuer.v # <<>>
       /\ ~Contains(commonName.v, expect_issuer.v)
    THEN PrintExit(Line("CRITICAL", "not found in issuer string", 0), 2)
    ELSE IF difference <= critical /\ difference > 0
    THEN PrintExit(Line("CRITICAL", "certificate expires in", difference), 2)
    ELSE IF difference <= warn /\ difference > 0
    THEN PrintExit(Line("WARNING", "certificate expires in", difference), 1)
    ELSE IF difference > warn
    THEN PrintExit(Line("OK", "certificate expires in", difference), 0)
    ELSE IF difference = 0
    THEN PrintExit(Line("CRITICAL", "certificate expired today", 0), 2)
    ELSE PrintExit(Line("CRITICAL", "certificate expired days ago",
                        Abs(difference)), 2)

\* main(), lines 114-136; issuer['commonName'] raises KeyError when the
\* issuer name of the certificate has no common name
ssl_main(difference, warn, critical, expect_issuer, commonName) ==
    IF ~expect_issuer.none /\ expect_issuer.v # <<>> /\ commonName.none
    THEN Uncaught("KeyError")
    ELSE IF ~expect_issuer.none /\ expect_issuer.v # <<>>
       /\ ~Contains(commonName.v, expect_issuer.v)
    THEN PrintExit(Line("CRITICAL", "not found in issuer string", 0), 2)
    ELSE IF difference <= critical /\ difference > 0
    THEN PrintExit(Line("CRITICAL", "certificate expires in", difference), 2)
    ELSE IF difference = 0
    THEN PrintExit(Line("CRITICAL", "certificate expired today", 0), 2)
    ELSE IF difference < 0
    THEN PrintExit(Line("CRITICAL", "certificate expired days ago",
                        Abs(difference)), 2)
    ELSE IF difference <= warn /\ difference < critical
    THEN PrintExit(Line(ssl_warn_keyword, "certificate expires in",
                        difference), 1)
    ELSE IF difference > warn
    THEN PrintExit(Line("OK", "certificate expires in", difference), 0)
    ELSE FallOff

ssl_socket_connect_alt(outcome) ==
    IF outcome = "connected" THEN FallOff
    ELSE IF outcome = "certificate" THEN Uncaught("ssl.CertificateError")
    ELSE PrintExit(Line("CRITICAL", "connection", 0), 2)

\* socket_connect(), lines 78-94: every socket.error (timeouts, refusals and
\* resolution failures are subclasses) and every CertificateError is caught
ssl_socket_connect(outcome) ==
    IF outcome = "connected" THEN FallOff
    ELSE PrintExit(Line("CRITICAL", "connection", 0), 2)

SslThresholds == { 5 * k : k \in (-MaxSslThresholdStep)..MaxSslThresholdStep }

SslHours ==
    { HoursPerDay * (5 * k + e) + h :
        k \in (-MaxSslDayStep)..MaxSslDayStep, e \in {0, 1}, h \in {0, 5} }

IssuerArgs == {None, Num(<<>>), Num(<<"C", "A">>)}

\* the issuer's common name, None when the issuer name has none
CommonNames == {Num(<<"X", "C", "A">>), Num(<<"X", "A">>), None}

SslInit ==
    /\ plugin = "check_ssl"
    /\ args \in [warn : SslThresholds, critical : SslThresholds,
                 issuer : IssuerArgs, numeric : {TRUE}]
                \cup {[warn |-> 0, critical |-> 0, issuer |-> None,
                        numeric |-> FALSE]}
    /\ env \in [conn : {"connected", "timeout", "refused", "certificate"},
                hours : SslHours, commonName : CommonNames]

\* main() lines 101-103: int() of port, warn and critical raises ValueError
\* on text that is no number; then socket_connect(): TLS handshake,
\* getpeercert(), match_hostname(), close()
SslConnect ==
    /\ plugin = "check_ssl" /\ pc = "start"
    /\ IF ~args.numeric
       THEN Terminate(Uncaught("ValueError")) /\ UNCHANGED <<net, data, sock>>
       ELSE /\ net' = TRUE
            /\ sock' = "closed"
            /\ LET r == ssl_socket_connect(env.conn) IN
               IF r.lines # <<>>
               THEN Terminate(r) /\ UNCHANGED data
               ELSE /\ data' = [kind |-> "cert", hours |-> env.hours,
                                commonName |-> env.commonName]
                    /\ pc' = "collected"
                    /\ UNCHANGED <<stdout, exitcode, exc>>
    /\ UNCHANGED <<plugin, args, env>>

SslEvaluate ==
    /\ plugin = "check_ssl" /\ pc = "collected"
    /\ Terminate(ssl_main(days_left(data.hours), args.warn, args.critical,
                          args.issuer, data.commonName))
    /\ UNCHANGED <<plugin, args, env, net, data, sock>>

----------------------------------------------------------------------------
(* check_response_code.py                                                  *)

MaxCodeLen == 4
MaxStatusOffset == 1

CodeAlphabet == {"0", "1", "2", "x", "\n"}

\* check_code_format(), lines 46-52: TRUE when no ValueError is raised.
\* re.match(r'^[0-9]{3}$'): three digits, and $ also matches just before a
\* newline that ends the string.
check_code_format(code) ==
    /\ Len(code) \in {3, 4}
    /\ \A i \in 1..3 : IsDigit(code[i])
    /\ Len(code) = 4 => code[4] = "\n"

response_main_alt(ACTUAL, EXPECTED) ==
    IF ~check_code_format(ACTUAL) \/ ~check_code_format(EXPECTED)
    THEN PrintExit(Line("WARNING", "invalid code", <<EXPECTED, ACTUAL>>), 1)
    ELSE IF ACTUAL = EXPECTED
    THEN PrintExit(Line("OK", "expected, got", <<EXPECTED, ACTUAL>>), 0)
    ELSE PrintExit(Line("CRITICAL", "expected, got", <<EXPECTED, ACTUAL>>), 1)

\* module level, lines 67-79
response_main(ACTUAL, EXPECTED) ==
    IF ~check_code_format(ACTUAL) \/ ~check_code_format(EXPECTED)
    THEN PrintExit(Line("WARNING", "invalid code", <<EXPECTED, ACTUAL>>), 1)
    ELSE IF ACTUAL = EXPECTED
    THEN PrintExit(Line("OK", "expected, got", <<EXPECTED, ACTUAL>>), 0)
    ELSE PrintExit(Line("CRITICAL", "expected, got", <<EXPECTED, ACTUAL>>), 2)

ResponseInit ==
    /\ plugin = "check_response_code"
    /\ args \in [responsecode : StringsUpTo(CodeAlphabet, MaxCodeLen),
                 numeric : {TRUE}]
    /\ env \in [http : {"ok", "connectionError"},
                status : 200..(200 + MaxStatusOffset)]

\* get_response_code(), lines 40-43: requests.get raises on a failed request
ResponseGet ==
    /\ plugin = "check_response_code" /\ pc = "start"
    /\ net' = TRUE
    /\ IF env.http = "ok"
       THEN /\ data' = [kind |-> "status", status_code |-> env.status]
            /\ pc' = "collected"
            /\ UNCHANGED <<stdout, exitcode, exc>>
       ELSE Terminate(Uncaught("requests.ConnectionError")) /\ UNCHANGED data
    /\ UNCHANGED <<plugin, args, env, sock>>

ResponseEvaluate ==
    /\ plugin = "check_response_code" /\ pc = "collected"
    /\ Terminate(response_main(Str(data.status_code), args.responsecode))
    /\ UNCHANGED <<plugin, args, env, net, data, sock>>

----------------------------------------------------------------------------
(* check_ssh.py                                                            *)

Banners ==
    { <<"S", "S", "H", "-", "2">>, <<"H", "T", "T", "P">>, <<"s", "s", "h">>,
      <<>> }

\* what read_some() does after a successful open()
ReadOutcomes == {"data", "error"}

\* telnet_connect(), lines 44-49: the try suite and its handler; only
\* socket.timeout is caught
telnet_open(outcome) ==
    IF outcome = "connected" THEN FallOff
    ELSE IF ConnException(outcome) = "socket.timeout"
    THEN PrintExit(Line("CRITICAL", "connection", 0), 2)
    ELSE Uncaught(ConnException(outcome))

\* telnet_connect(), lines 50-51: read_some() runs in the else clause,
\* outside the handler
telnet_read(read) ==
    IF read = "error" THEN Uncaught("EOFError") ELSE FallOff

\* telnet_connect(), lines 44-54, as a whole: how the call ends
telnet_connect(outcome, read) ==
    IF telnet_open(outcome) # FallOff THEN telnet_open(outcome)
    ELSE telnet_read(read)

telnet_close_alt(outcome) ==
    IF outcome = "connected" THEN "closed" ELSE "open"

\* telnet_connect(), lines 52-53: finally: tlnt.close(), whatever the
\* outcome of the try suite
telnet_close(outcome) == "closed"

ssh_main_alt(ssh_data) ==
    IF Contains(ssh_data, <<"S", "S", "H">>)
    THEN PrintExit(Line("OK", "banner", ssh_data), 0)
    ELSE PrintExit(Line("CRITICAL", "unexpected data", ssh_data), 2)

\* main(), lines 87-92
ssh_main(ssh_data) ==
    IF Contains(ssh_data, <<"S", "S", "H">>)
    THEN PrintExit(Line("OK", "banner", ssh_data), 0)
    ELSE PrintExit(Line("WARNING", "unexpected data", ssh_data), 1)

SshInit ==
    /\ plugin = "check_ssh"
    /\ args \in [port : {22, 2222}, numeric : {TRUE}]
    /\ env \in [conn : ConnOutcomes, read : ReadOutcomes, banner : Banners]

\* telnet_connect(), try suite: Telnet(), open(); the handler of
\* socket.timeout prints before the finally clause runs
SshConnect ==
    /\ plugin = "check_ssh" /\ pc = "start"
    /\ net' = TRUE
    /\ sock' = "open"
    /\ LET r == telnet_open(env.conn) IN
       /\ stdout' = stdout \o r.lines
       /\ pc' = IF r = FallOff THEN "else" ELSE "finally"
    /\ UNCHANGED <<plugin, args, env, data, exitcode, exc>>

\* telnet_connect(), else clause: data = tlnt.read_some().strip()
SshRead ==
    /\ plugin = "check_ssh" /\ pc = "else"
    /\ IF telnet_read(env.read) = FallOff
       THEN data' = [kind |-> "banner", banner |-> env.banner]
       ELSE UNCHANGED data
    /\ pc' = "finally"
    /\ UNCHANGED <<plugin, args, env, net, sock, stdout, exitcode, exc>>

\* telnet_connect(), finally clause: tlnt.close(); then return data, or the
\* pending SystemExit / exception ends the process
SshClose ==
    /\ plugin = "check_ssh" /\ pc = "finally"
    /\ sock' = telnet_close(env.conn)
    /\ LET r == telnet_connect(env.conn, env.read) IN
       IF r = FallOff
       THEN pc' = "collected" /\ UNCHANGED <<exitcode, exc>>
       ELSE pc' = "done" /\ exitcode' = r.code /\ exc' = r.exc
    /\ UNCHANGED <<plugin, args, env, net, data, stdout>>

SshEvaluate ==
    /\ plugin = "check_ssh" /\ pc = "collected"
    /\ Terminate(ssh_main(data.banner))
    /\ UNCHANGED <<plugin, args, env, net, data, sock>>

----------------------------------------------------------------------------
(* check_tcp_port.py                                                       *)

\* socket_connect(), lines 65-76: only socket.timeout is caught
tcp_socket_connect(outcome, port) ==
    IF outcome = "connected"
    THEN PrintExit(Line("OK", "Connection to port successful", port), 0)
    ELSE IF ConnException(outcome) = "socket.timeout"
    THEN PrintExit(Line("CRITICAL", "Connection to port failed", port), 2)
    ELSE Uncaught(ConnException(outcome))

TcpInit ==
    /\ plugin = "check_tcp_port"
    /\ args \in [port : {22, 80, 443}, numeric : {TRUE}]
                \cup {[port |-> 0, numeric |-> FALSE]}
    /\ env \in [conn : ConnOutcomes]

\* socket_connect(), lines 75-76: finally: sock.close()
tcp_close(outcome) == "closed"

\* do_argparser() (type=int), then socket_connect(), try suite with its
\* handler and else clause: socket(), connect(), print, sys.exit()
TcpConnect ==
    /\ plugin = "check_tcp_port" /\ pc = "start"
    /\ IF ~args.numeric
       THEN Terminate(UsageError) /\ UNCHANGED <<net, data, sock>>
       ELSE /\ net' = TRUE
            /\ sock' = "open"
            /\ data' = [kind |-> env.conn]
            /\ stdout' = stdout \o tcp_socket_connect(env.conn, args.port).lines
            /\ pc' = "finally"
            /\ UNCHANGED <<exitcode, exc>>
    /\ UNCHANGED <<plugin, args, env>>

\* socket_connect(), finally clause: sock.close(); then the pending
\* SystemExit / exception ends the process
TcpClose ==
    /\ plugin = "check_tcp_port" /\ pc = "finally"
    /\ sock' = tcp_close(env.conn)
    /\ LET r == tcp_socket_connect(env.conn, args.port) IN
       /\ pc' = "done"
       /\ exitcode' = r.code
       /\ exc' = r.exc
    /\ UNCHANGED <<plugin, args, env, net, data, stdout>>

----------------------------------------------------------------------------
Init ==
    /\ pc = "start"
    /\ net = FALSE
    /\ data = NoData
    /\ sock = "none"
    /\ stdout = <<>>
    /\ exitcode = NoExit
    /\ exc = "none"
    /\ \/ UsersInit
       \/ TimeInit
       \/ UptimeInit
       \/ LoadInit
       \/ PingInit
       \/ SslInit
       \/ ResponseInit
       \/ SshInit
       \/ TcpInit

Next ==
    \/ UsersCollect
    \/ UsersEvaluate
    \/ TimeCollect
    \/ TimeEvaluate
    \/ UptimeCollect
    \/ UptimeEvaluate
    \/ LoadCollect
    \/ LoadEvaluate
    \/ PingCollect
    \/ PingEvaluate
    \/ SslConnect
    \/ SslEvaluate
    \/ ResponseGet
    \/ ResponseEvaluate
    \/ SshConnect
    \/ SshRead
    \/ SshClose
    \/ SshEvaluate
    \/ TcpConnect
    \/ TcpClose

Spec == Init /\ [][Next]_vars

----------------------------------------------------------------------------
(* Properties                                                              *)

Done == pc = "done"

SeverityKeywords == {"OK", "WARNING", "CRITICAL", "UNKNOWN"}

\* Nagios plugin convention
SeverityCode(kw) ==
    CASE kw = "OK" -> 0
      [] kw = "WARNING" -> 1
      [] kw = "CRITICAL" -> 2
      [] kw = "UNKNOWN" -> 3

\* keyword and message of the first line printed, "" when nothing was printed
Keyword == IF stdout = <<>> THEN "" ELSE stdout[1].kw
Message == IF stdout = <<>> THEN "" ELSE stdout[1].msg

\* the run printed exactly the line '<kw>: ...' and exited with code
Reported(kw, code) ==
    /\ Len(stdout) = 1
    /\ stdout[1].kw = kw
    /\ exitcode = code
    /\ exc = "none"

\* the ascending rule of the plugins' header comments
Ascending(value, warning, critical) ==
    IF value >= critical THEN "CRITICAL"
    ELSE IF value >= warning THEN "WARNING"
    ELSE "OK"

ReportedSeverity(kw) == Reported(kw, SeverityCode(kw))

\* the SNMP GET answered with values
SnmpOk == net /\ env.snmp = "ok"

\* seconds per unit of each time type
SecondsPer(timetype) ==
    CASE timetype = "sec" -> 1
      [] timetype = "min" -> 60
      [] timetype = "hr" -> 3600
      [] timetype = "day" -> 86400

\* C1: in every plugin, whenever the process has terminated and a printed
\* line starts with a severity keyword, the exit code is that keyword's
\* numeric value (OK=0, WARNING=1, CRITICAL=2, UNKNOWN=3).
C1_ExitCodeMatchesKeyword ==
    Done =>
        \A i \in 1..Len(stdout) :
            stdout[i].kw \in SeverityKeywords
                => exitcode = SeverityCode(stdout[i].kw)

\* a well-formed response-code mismatch was reported: CRITICAL with exit 2
C1_Witness ==
    /\ Done /\ plugin = "check_response_code"
    /\ Keyword = "CRITICAL" /\ exitcode = 2

\* the collection step of the run succeeded
CollectionSucceeded ==
    CASE plugin \in {"check_users", "check_time", "check_uptime", "check_load"}
            -> SnmpOk
      [] plugin = "check_ping" -> env.report = "full"
      [] plugin = "check_ssl" -> net /\ env.conn = "connected"
      [] plugin = "check_response_code" -> env.http = "ok"
      [] plugin = "check_ssh" -> env.conn = "connected" /\ env.read = "data"
      [] plugin = "check_tcp_port" -> net /\ env.conn = "connected"

\* C2: every terminated run whose collection step succeeded has printed
\* exactly one line, and that line starts with a severity keyword.
C2_ExactlyOneStatusLine ==
    (Done /\ CollectionSucceeded) =>
        /\ Len(stdout) = 1
        /\ stdout[1].kw \in SeverityKeywords

\* C3 (check_users): with warn <= critical the result is the ascending one.
C3_Users ==
    (plugin = "check_users" /\ SnmpOk /\ args.warn <= args.critical) =>
        ReportedSeverity(Ascending(env.users, args.warn, args.critical))

\* C3 (check_time): the same for the computed drift, in thousandths of a
\* minute.
C3_Time ==
    (plugin = "check_time" /\ SnmpOk /\ args.warn <= args.critical) =>
        ReportedSeverity(Ascending(drift(env.delta), 1000 * args.warn,
                                   1000 * args.critical))

\* C3 (check_uptime, operator gt, a valid time type): the same for the
\* uptime, in hundredths of a second.
C3_Uptime ==
    (plugin = "check_uptime" /\ SnmpOk /\ args.operator = "gt"
        /\ args.timetype \in TimeTypes /\ args.warn <= args.critical) =>
        ReportedSeverity(
            Ascending(uptime(env.ticks, env.py),
                      100 * SecondsPer(args.timetype) * args.warn,
                      100 * SecondsPer(args.timetype) * args.critical))

SeverityRank(kw) == SeverityCode(kw)

\* a multi-metric run: the result is at least as severe as every metric's
\* ascending severity, and it is that severity when the other metrics are
\* below their warning thresholds
PerMetricAscending(metrics, warn, critical) ==
    \A i \in 1..Len(metrics) :
        /\ \E kw \in {"OK", "WARNING", "CRITICAL"} :
              /\ ReportedSeverity(kw)
              /\ SeverityRank(kw)
                    >= SeverityRank(Ascending(metrics[i], warn[i], critical[i]))
        /\ (\A j \in 1..Len(metrics) : j # i => metrics[j] < warn[j])
              => ReportedSeverity(Ascending(metrics[i], warn[i], critical[i]))

PairwiseOrdered(warn, critical, n) ==
    /\ Len(warn) >= n /\ Len(critical) >= n
    /\ \A i \in 1..n : warn[i] <= critical[i]

\* C3 (check_load): each of the three figures follows the ascending rule.
C3_Load ==
    (plugin = "check_load" /\ SnmpOk
        /\ PairwiseOrdered(args.warn, args.critical, 3)) =>
        PerMetricAscending(env.load, args.warn, args.critical)

\* C3 (check_ping): packet loss and rtt, as computed by get_packetloss and
\* get_rtt, each follow the ascending rule.
C3_Ping ==
    (plugin = "check_ping" /\ env.report = "full"
        /\ PairwiseOrdered(args.warn, args.critical, 2)) =>
        PerMetricAscending(<<get_packetloss(env.loss), get_rtt(env.rtt)>>,
                           args.warn, args.critical)

\* C3: for the ascending checks and thresholds with warning <= critical, a
\* terminated run reports OK (exit 0) when value < warning, WARNING (exit 1)
\* when warning <= value < critical and CRITICAL (exit 2) when
\* value >= critical; a value equal to a threshold breaches it.
C3_AscendingPolicy ==
    Done => C3_Users /\ C3_Time /\ C3_Uptime /\ C3_Load /\ C3_Ping

\* check_users with the count exactly on the warning threshold: WARNING
C3_Witness ==
    /\ Done /\ plugin = "check_users" /\ SnmpOk
    /\ env.users = args.warn /\ args.warn < args.critical
    /\ Reported("WARNING", 1)

\* the descending rule of check_uptime's header comment
Descending(value, warning, critical) ==
    IF value <= critical THEN "CRITICAL"
    ELSE IF value <= warning THEN "WARNING"
    ELSE "OK"

\* C4: check_uptime with operator lt, a time type among sec/min/hr/day and
\* warning >= critical reports OK when uptime > warning, WARNING when
\* critical < uptime <= warning and CRITICAL when uptime <= critical, the
\* thresholds being converted to seconds by x1, x60, x3600, x86400.
C4_DescendingUptime ==
    (Done /\ plugin = "check_uptime" /\ SnmpOk /\ args.operator = "lt"
        /\ args.timetype \in TimeTypes /\ args.warn >= args.critical) =>
        ReportedSeverity(
            Descending(uptime(env.ticks, env.py),
                       100 * SecondsPer(args.timetype) * args.warn,
                       100 * SecondsPer(args.timetype) * args.critical))

\* an uptime of exactly the warning threshold, given in days: WARNING
C4_Witness ==
    /\ Done /\ plugin = "check_uptime" /\ SnmpOk /\ args.operator = "lt"
    /\ args.timetype = "day" /\ args.warn > args.critical
    /\ args.warn > 0
    /\ uptime(env.ticks, env.py) = 100 * 86400 * args.warn
    /\ Reported("WARNING", 1)

\* check_ssl reached its comparisons and the issuer test did not fire
SslEvaluated ==
    /\ Done /\ plugin = "check_ssl" /\ net /\ env.conn = "connected"
    /\ \/ args.issuer.none
       \/ args.issuer.v = <<>>
       \/ ~env.commonName.none /\ Contains(env.commonName.v, args.issuer.v)

\* days until expiry: whole days from now to notAfter, rounded down
SslDays == env.hours \div 24

\* C5: in check_ssl, a day count above the critical threshold and at or
\* below the warning threshold (days = 10, warning = 15, critical = 5)
\* is reported as WARNING with exit code 1.
C5_SslWarningBand ==
    (SslEvaluated /\ SslDays > 0
        /\ args.critical < SslDays /\ SslDays <= args.warn) =>
        Reported("WARNING", 1)

\* C6: in check_ssl without issuer mismatch, for all thresholds, the result
\* is CRITICAL (exit 2) exactly when days <= 0 or days <= critical; days = 0
\* prints 'expired today', days < 0 prints 'expired N days ago' with
\* N = |days|, and an expired certificate is never reported OK.
C6_SslCriticalExactly ==
    SslEvaluated =>
        /\ Reported("CRITICAL", 2) <=> (SslDays <= 0 \/ SslDays <= args.critical)
        /\ Keyword = "CRITICAL" <=> (SslDays <= 0 \/ SslDays <= args.critical)
        /\ SslDays = 0 => Message = "certificate expired today"
        /\ SslDays < 0 =>
              /\ Message = "certificate expired days ago"
              /\ stdout[1].val = -SslDays
        /\ SslDays <= 0 => Keyword # "OK" /\ exitcode # 0

\* a certificate expired five days ago, with both thresholds negative and
\* the warning threshold below the day count
C6_Witness ==
    /\ SslEvaluated /\ SslDays = -5
    /\ args.warn < SslDays /\ args.critical < SslDays
    /\ Reported("CRITICAL", 2)
    /\ stdout[1].val = 5

\* the most severe of a set of severities
MaxSeverity(kws) ==
    IF "CRITICAL" \in kws THEN "CRITICAL"
    ELSE IF "WARNING" \in kws THEN "WARNING"
    ELSE "OK"

Aggregate(metrics, warn, critical) ==
    MaxSeverity({ Ascending(metrics[i], warn[i], critical[i]) :
                    i \in 1..Len(metrics) })

\* C7: check_load (three figures) and check_ping (loss, rtt) report the
\* maximum of the per-metric ascending severities, whichever metric
\* breaches, when every metric has its warning and critical threshold.
C7_MaxOverMetrics ==
    Done =>
        /\ (plugin = "check_load" /\ SnmpOk
              /\ Len(args.warn) >= 3 /\ Len(args.critical) >= 3) =>
              ReportedSeverity(Aggregate(env.load, args.warn, args.critical))
        /\ (plugin = "check_ping" /\ env.report = "full"
              /\ Len(args.warn) >= 2 /\ Len(args.critical) >= 2) =>
              ReportedSeverity(
                  Aggregate(<<get_packetloss(env.loss), get_rtt(env.rtt)>>,
                            args.warn, args.critical))

\* only the fifteen-minute load breaches its critical threshold: CRITICAL
C7_Witness ==
    /\ Done /\ plugin = "check_load" /\ SnmpOk
    /\ Len(args.warn) = 3 /\ Len(args.critical) = 3
    /\ env.load[1] < args.warn[1] /\ env.load[2] < args.warn[2]
    /\ env.load[3] >= args.critical[3]
    /\ Reported("CRITICAL", 2)

\* exactly three decimal digits
ThreeDigits(code) ==
    /\ Len(code) = 3
    /\ \A i \in 1..Len(code) : code[i] \in {"0", "1", "2", "3", "4", "5",
                                            "6", "7", "8", "9"}

ActualCode == Str(env.status)

\* C8: check_response_code reports WARNING (exit 1) when the expected or
\* the actual code is not exactly three decimal digits, otherwise OK
\* (exit 0) for equal codes and CRITICAL (exit 2) for different ones.
C8_ResponseCodeDecision ==
    (Done /\ plugin = "check_response_code" /\ env.http = "ok") =>
        IF ~ThreeDigits(args.responsecode) \/ ~ThreeDigits(ActualCode)
        THEN Reported("WARNING", 1)
        ELSE IF args.responsecode = ActualCode
        THEN Reported("OK", 0)
        ELSE Reported("CRITICAL", 2)

\* check_ssh connected, read a banner, and the banner lacks 'SSH'
SshUnexpectedBanner ==
    /\ Done /\ plugin = "check_ssh"
    /\ env.conn = "connected" /\ env.read = "data"
    /\ ~Contains(env.banner, <<"S", "S", "H">>)

\* C9 as claimed: a banner without 'SSH' is reported CRITICAL (exit 2).
C9_UnexpectedBannerCritical ==
    SshUnexpectedBanner => Reported("CRITICAL", 2)

\* C9 as amended: in check_ssh, when the connection succeeds but the data
\* received does not contain 'SSH', the result is WARNING (exit 1).
C9_UnexpectedBannerWarning ==
    SshUnexpectedBanner => Reported("WARNING", 1)

\* an HTTP server answered on the port
C9_Witness ==
    /\ SshUnexpectedBanner
    /\ env.banner = <<"H", "T", "T", "P">>
    /\ Reported("WARNING", 1)

\* C10: in check_tcp_port and check_ssh every failed connection attempt
\* (timeout, refused, unreachable, name resolution) ends with one
\* 'CRITICAL: ...' line and exit code 2, never with an unhandled exception,
\* and OK is printed only when the connection was made.
C10_ConnectionFailureCritical ==
    (Done /\ net /\ plugin \in {"check_tcp_port", "check_ssh"}) =>
        /\ env.conn # "connected" => Reported("CRITICAL", 2)
        /\ Keyword = "OK" => env.conn = "connected"

\* check_ping was given two numeric thresholds in each list
PingWellFormed ==
    /\ plugin = "check_ping" /\ args.numeric
    /\ Len(args.warn) = 2 /\ Len(args.critical) = 2

SnmpPlugins == {"check_users", "check_time", "check_uptime", "check_load"}

\* C11: in check_ping, a run whose ping report could not be parsed (it has
\* no 'packet loss' line, or no rtt summary line) ends with one status line
\* whose keyword is CRITICAL or UNKNOWN, with the matching exit code 2 or 3,
\* and without an unhandled exception.
C11_UnparsableReportReported ==
    (Done /\ PingWellFormed /\ env.report # "full") =>
        /\ exc = "none"
        /\ Len(stdout) = 1
        /\ Keyword \in {"CRITICAL", "UNKNOWN"}
        /\ exitcode = SeverityCode(Keyword)

\* C12: in the SNMP checks, a GET that failed, by a transport error
\* indication or by a non-zero SNMP error-status, ends the run with one
\* 'UNKNOWN: ...' line and exit code 3; no OK, WARNING or CRITICAL is
\* printed for it.
C12_FailedGetUnknown ==
    (Done /\ net /\ plugin \in SnmpPlugins /\ env.snmp # "ok") =>
        /\ Reported("UNKNOWN", 3)
        /\ \A i \in 1..Len(stdout) :
              stdout[i].kw \notin {"OK", "WARNING", "CRITICAL"}

\* some index of both lists where critical is below warning
SomeInverted(warn, critical) ==
    \E i \in 1..Min(Len(warn), Len(critical)) : critical[i] < warn[i]

\* the critical threshold is less severe than the warning threshold along
\* the direction in which the check compares
CriticalLessSevere ==
    /\ args.numeric
    /\ CASE plugin \in {"check_users", "check_time"}
                -> args.critical < args.warn
          [] plugin = "check_uptime"
                -> \/ args.operator = "gt" /\ args.critical < args.warn
                   \/ args.operator = "lt" /\ args.critical > args.warn
          [] plugin \in {"check_load", "check_ping"}
                -> SomeInverted(args.warn, args.critical)
          [] plugin = "check_ssl" -> args.critical > args.warn
          [] OTHER -> FALSE

\* the run ended in an error without printing OK, WARNING or CRITICAL
NoSeverityComputed ==
    /\ exitcode # 0
    /\ \A i \in 1..Len(stdout) :
          stdout[i].kw \notin {"OK", "WARNING", "CRITICAL", ssl_warn_keyword}

\* C13: a run whose critical threshold is less severe than its warning
\* threshold (critical < warning for the ascending checks, critical >
\* warning for check_uptime with lt and for check_ssl) ends with an error
\* and prints no OK, WARNING or CRITICAL line, even when the host answers
\* the collection step.
C13_InvertedThresholdsRejected ==
    (Done /\ CriticalLessSevere /\ CollectionSucceeded) => NoSeverityComputed

\* the command line carries a malformed value: a threshold that is no
\* number, a list with an element missing, an unknown operator or time type
Malformed ==
    \/ ~args.numeric
    \/ /\ plugin = "check_uptime"
       /\ args.operator \notin {"lt", "gt"} \/ args.timetype \notin TimeTypes
    \/ /\ plugin = "check_load"
       /\ Len(args.warn) < NumLoadFigures \/ Len(args.critical) < NumLoadFigures
    \/ /\ plugin = "check_ping"
       /\ Len(args.warn) < 2 \/ Len(args.critical) < 2

\* C14: in a run whose command line carries a malformed value the
\* collection step never runs: no network I/O is performed at any point of
\* the run.
C14_MalformedBeforeNetwork ==
    Malformed => ~net

\* C15: check_load given a warning or critical list that has not three
\* values, and check_ping given one that has not two, ends with an error
\* and prints no OK, WARNING or CRITICAL line.
C15_ListCountRejected ==
    /\ (Done /\ plugin = "check_load" /\ args.numeric
          /\ (Len(args.warn) # NumLoadFigures
                \/ Len(args.critical) # NumLoadFigures))
          => NoSeverityComputed
    /\ (Done /\ plugin = "check_ping" /\ args.numeric
          /\ (Len(args.warn) # 2 \/ Len(args.critical) # 2))
          => NoSeverityComputed

\* the whole absolute time difference in thousandths of a minute, days
\* included
WholeDrift(delta) == (100 * Abs(delta) + 3) \div 6

\* C17: check_time with warning <= critical reports, for every difference
\* between host and local UTC time, differences of a day or more included,
\* the ascending severity of the whole difference in minutes.
C17_WholeDriftCompared ==
    (Done /\ plugin = "check_time" /\ SnmpOk
        /\ args.warn <= args.critical) =>
        ReportedSeverity(Ascending(WholeDrift(env.delta), 1000 * args.warn,
                                   1000 * args.critical))

\* C18: for a summary line reporting p% packet loss, check_ping evaluates
\* packet loss p: the value it prints is p, and 25% loss with rtt 50 ms
\* against warning (10,100) and critical (20,200) gives CRITICAL.
C18_PacketLossIsPercentage ==
    (Done /\ PingWellFormed /\ env.report = "full") =>
        /\ Len(stdout) = 1
        /\ stdout[1].val[1] = env.loss
        /\ (env.loss = 25 /\ env.rtt = 50
              /\ args.warn = <<10, 100>> /\ args.critical = <<20, 200>>)
              => Reported("CRITICAL", 2)

\* the expected issuer text is absent from the issuer's common name
IssuerMismatch ==
    /\ ~args.issuer.none
    /\ ~env.commonName.none
    /\ ~Contains(env.commonName.v, args.issuer.v)

\* C16: in check_ssl, a certificate that does not match the host name ends
\* the run with one CRITICAL line and exit code 2; so does an expected
\* issuer text absent from the issuer common name, whatever the days left
\* and the thresholds are, and the one line printed is then the issuer
\* message, not an expiry status line.
C16_IdentityFailureCritical ==
    (Done /\ plugin = "check_ssl" /\ net) =>
        /\ env.conn = "certificate" =>
              Reported("CRITICAL", 2) /\ Message = "connection"
        /\ (env.conn = "connected" /\ IssuerMismatch) =>
              /\ Reported("CRITICAL", 2)
              /\ Message = "not found in issuer string"

\* an issuer mismatch on a certificate whose days left are above both
\* thresholds, which the expiry comparison would report as OK
C16_Witness ==
    /\ Done /\ plugin = "check_ssl" /\ net
    /\ env.conn = "connected" /\ IssuerMismatch
    /\ SslDays > 0 /\ SslDays > args.warn /\ SslDays > args.critical
    /\ Reported("CRITICAL", 2)
    /\ Message = "not found in issuer string"

\* C19: in check_tcp_port and check_ssh the socket / Telnet object, once
\* created, is closed when the process has terminated, on every path (OK
\* exit, CRITICAL exit after a timeout, a propagating exception); it is
\* never reopened, and check_ssh reads the banner while the object is open.
C19_ClosedBeforeExit ==
    /\ []((Done /\ plugin \in {"check_tcp_port", "check_ssh"}
              /\ sock # "none") => sock = "closed")
    /\ [][sock = "closed" => sock' = "closed"]_vars
    /\ [][(plugin = "check_ssh" /\ data.kind # "banner"
              /\ data'.kind = "banner")
              => (sock = "open" /\ sock' = "open")]_vars

\* check_ssh read a banner, closed the connection and terminated
C19_Witness ==
    /\ Done /\ plugin = "check_ssh"
    /\ data.kind = "banner" /\ sock = "closed"

====
